---- MODULE Spec2Model ----
(***************************************************************************)
(* Model of the streaming deepfake monitor (StreamingDeepfakeMonitor) in   *)
(* its two variants, src/desktop-app/deepfake_monitor.py ("desktop") and   *)
(* src/deepfake_monitor.py ("root"), and of the verdict builders of the    *)
(* repository.                                                             *)
(*                                                                         *)
(* Units.  Time and audio durations are counted in whole seconds; every    *)
(* device read returns a chunk of ChunkSeconds seconds (CHUNK / RATE in    *)
(* the source).  A chunk is modelled by the amplitude (in int16 units) its *)
(* samples have.  Probabilities are integers in units of 1e-4; a report    *)
(* prints them as percentages with one decimal, modelled in tenths of a    *)
(* percent.                                                                *)
(***************************************************************************)
EXTENDS Integers, Sequences, FiniteSets, TLC

\* ------------------------------------------------------------------ bounds
\* len(audio_np) / self.RATE: the duration of one chunk, in seconds.
ChunkSeconds == 3
\* Verdicts handled in one behaviour.
MaxVerdicts == 3
\* Alerts after which test_alert is no longer called.
MaxAlerts == 2
\* time.time() at construction, and how far the clock runs after it.
EpochStart == 11
MaxElapsed == 11
\* Steps of the grid of probabilities.
ProbSteps == 8
\* Results the Chrome-extension server stores, called as a method.
MaxDetections == 1
\* Results the server holds where the server specification starts.
DetectionsStart == 998
\* Requests the server handles.
MaxApiCalls == 4
\* Time frames of the longest spectrogram.
MaxFrames == 130
\* Forward passes of the model on extracted features.
MaxModelCalls == 2
\* Verdicts already handled where the history specification starts.
HistoryStart == 98
\* Frames the audio callback puts in the queue of the real-time detector.
MaxQueued == 66
\* Chunks the real-time detector gives to predict_audio_chunk.
MaxChunks == 1

\* Amplitudes a captured chunk can have (int16 units): digital silence,
\* a level below both volume thresholds, a level above both.
Amps == {0, 3, 17}

Variants == {"desktop", "root"}

\* --------------------------------------------------------------- constants
HistoryCap == 100
\* ChromeExtensionServer.process_audio_chunk: `self.detections[-1000:]`
DetectionsCap == 1000

alert_cooldown(v) == IF v = "desktop" THEN 10 ELSE 3

\* self.BUFFER_DURATION, in seconds.
BUFFER_DURATION(v) == IF v = "desktop" THEN 8 ELSE 4

\* The literal the eviction loop compares buffer_duration with, in seconds.
EvictionLimit(v) == IF v = "desktop" THEN 10 ELSE 5

\* The literal of the minimum-context test, in tenths of a second (4.0, 2.5).
MinContextTenths(v) == IF v = "desktop" THEN 40 ELSE 25

\* self.MIN_VOLUME_THRESHOLD in units of 1e-4 (0.0001, 0.0005).
MinVolumeE4(v) == IF v = "desktop" THEN 1 ELSE 5

\* self.alert_threshold as __init__ sets it, in 1e-4 (0.3, 0.5).
InitialAlertThreshold(v) == IF v = "desktop" THEN 3000 ELSE 5000

\* Values the attribute alert_threshold is set to.
AlertThresholds == {3000, 5000, 7000}

\* The literal is_suspicious compares fake_prob with, in 1e-4 (0.3, 0.5).
SuspiciousLevel(v) == IF v = "desktop" THEN 3000 ELSE 5000

VARIABLES
    variant,                \* which monitor source file is running
    now,                    \* time.time()
    is_monitoring,
    streaming_buffer,       \* list of chunks (their amplitudes), oldest first
    buffer_duration,        \* in seconds
    detection_history,
    total_detections,
    detection_latency,      \* number of entries of the list
    last_alert_time,
    consecutive_detections,
    in_detection_event,
    detection_event_start,
    capture_pc,             \* thread slot -> where audio_capture_thread blocks
    analysis_pc,            \* thread slot -> where streaming_analysis_thread blocks
    alerts_fired,           \* calls of trigger_streaming_alert so far
    run_len,                \* suspicious verdicts handled since the last clean verdict or stop
    run_alerts,             \* alerts fired by those verdicts
    tick_failed,            \* the latest inference call ended in an error result
    cur_event,              \* the latest detection event: <<start time, alert fired>>
    buffer_lock,            \* who holds self.buffer_lock: Unlocked or <<duty, slot>>
    stopped_threads,        \* the living analysis threads (slots) that a stop_monitoring has told to end
    verdict,                \* the result dict built last
    builder,                \* the function that built it
    report,                 \* the markdown format_result_for_ui returned last
    detections,             \* ChromeExtensionServer.detections
    server,                 \* which ChromeExtensionServer: "local" model or "remote" API
    history_response,       \* what /api/history returned last
    api_calls,              \* requests the server has handled
    alert_threshold,        \* self.alert_threshold, in units of 1e-4
    payload,                \* the terminal payload given to a parser last
    caller,                 \* whose remote call: "monitor" or "client"
    call_pc,                \* where the remote call is
    attempt,                \* polling requests made by the call
    call_end,               \* how the call ended
    service,                \* the service that was launched
    weight_file,            \* the model weight file it found
    service_state,          \* "down", "failed" (start-up raised) or "running"
    model_loaded,           \* the service holds a usable model
    audio_path,                   \* the audio audio_path given to the feature extractor
    features,               \* what the extraction returned last
    model_calls,            \* forward passes of the model on extracted features
    detector_monitoring,    \* RealTimeDetector.is_monitoring
    audio_queue,            \* frames waiting in RealTimeDetector.audio_queue
    frames_put,             \* frames the callback has put so far
    loop_pc,                \* where RealTimeDetector.start_monitoring is
    audio_frames,           \* frames collected for the chunk being built
    frames_left,            \* iterations left of the collecting loop
    chunks_predicted,       \* calls of predict_audio_chunk by the loop so far
    audio_data,             \* frames joined in the chunk given to predict_audio_chunk last, 0 before the first
    temp_files              \* the operations whose temporary audio file is on disk

monitor_vars == <<variant, now, is_monitoring, streaming_buffer, buffer_duration,
                  detection_history, total_detections, detection_latency,
                  last_alert_time, consecutive_detections, in_detection_event,
                  detection_event_start, capture_pc, analysis_pc,
                  alerts_fired, run_len, run_alerts, tick_failed, cur_event,
                  buffer_lock, stopped_threads>>

server_vars == <<detections, server, history_response, api_calls>>

verdict_vars == <<verdict, builder, report, server_vars, alert_threshold,
                  payload>>

remote_vars == <<caller, call_pc, attempt, call_end>>

\* What the monitor's actions leave alone.
startup_vars == <<service, weight_file, service_state, model_loaded>>

feature_vars == <<audio_path, features, model_calls>>

detector_vars == <<detector_monitoring, audio_queue, frames_put, loop_pc,
                   audio_frames, frames_left, chunks_predicted, audio_data>>

temp_vars == <<temp_files>>

service_vars == <<verdict_vars, remote_vars, startup_vars, feature_vars,
                  detector_vars, temp_vars>>

vars == <<monitor_vars, service_vars>>

\* Thread slots per duty: the threads of one duty alive at the same time.
Slots == {1, 2}

\* ------------------------------------------------------------ remote report
\* A terminal payload of the remote call.  text: it is a string.  real, fake:
\* the number the regex finds after "Real Voice" / "AI Generated", in tenths
\* of a percent, or NoMatch.  likely_ai: the text contains "LIKELY AI
\* GENERATED".  ai_words: the text contains "AI GENERATED" in any letter case.
NoMatch == -1

Report(real, fake, likely_ai, ai_words) ==
    [text |-> TRUE, real |-> real, fake |-> fake,
     likely_ai |-> likely_ai, ai_words |-> ai_words]

NonText == [text |-> FALSE, real |-> NoMatch, fake |-> NoMatch,
            likely_ai |-> FALSE, ai_words |-> FALSE]

Max(a, b) == IF a >= b THEN a ELSE b
Min(a, b) == IF a <= b THEN a ELSE b

\* A result dict.  error: it has an 'error' entry.  real, fake: its
\* probabilities, NoMatch when it has none.
Verdict(prediction, real_prob, fake_prob, is_suspicious) ==
    [error |-> FALSE, prediction |-> prediction,
     confidence |-> Max(real_prob, fake_prob),
     real |-> real_prob, fake |-> fake_prob, is_suspicious |-> is_suspicious]

ErrorResult(prediction, confidence) ==
    [error |-> TRUE, prediction |-> prediction, confidence |-> confidence,
     real |-> NoMatch, fake |-> NoMatch, is_suspicious |-> FALSE]

\* float(match.group(1)) / 100 if match else 0.5
MatchedProb(tenths) == IF tenths # NoMatch THEN tenths * 10 ELSE 5000

\* StreamingDeepfakeMonitor.parse_streaming_result
parse_streaming_result(v, markdown_result) ==
    IF ~markdown_result.text
    THEN ErrorResult("UNKNOWN", 5000)
    ELSE LET real_prob == MatchedProb(markdown_result.real)
             fake_prob == MatchedProb(markdown_result.fake)
             is_fake == fake_prob > real_prob \/ markdown_result.likely_ai
         IN  Verdict(IF is_fake THEN "FAKE" ELSE "REAL", real_prob, fake_prob,
                     fake_prob > SuspiciousLevel(v))

\* --------------------------------------------------------------- the buffer
RECURSIVE SumSquares(_)
SumSquares(buf) ==
    IF buf = <<>> THEN 0 ELSE Head(buf) * Head(buf) + SumSquares(Tail(buf))

\* A volume test that takes only digital silence for quiet.
OnlySilenceIsQuiet(v, buffer_copy) == SumSquares(buffer_copy) = 0

\* calculate_rms(np.concatenate(buffer_copy)) < MIN_VOLUME_THRESHOLD, with the
\* samples int16 / 32768: mean(a^2) / 2^30 < (t * 10^-4)^2, both sides
\* multiplied by 10^8 * 2^22.  All chunks have the same number of samples, so
\* the mean over the samples is the mean over the chunks.
IsTooQuiet(v, buffer_copy) ==
    SumSquares(buffer_copy) * 390625
        < MinVolumeE4(v) * MinVolumeE4(v) * Len(buffer_copy) * 4194304

\* An eviction that pops the oldest chunk and forgets to take its length off
\* the duration.
EvictForgettingDuration(v, buf, dur) ==
    IF dur > EvictionLimit(v) /\ buf # <<>> THEN <<Tail(buf), dur>> ELSE <<buf, dur>>

\* The eviction loop of audio_capture_thread: pop(0) while the duration is
\* above the limit.  Returns <<buffer, duration>>.
RECURSIVE Evict(_, _, _)
Evict(v, buf, dur) ==
    IF dur > EvictionLimit(v) /\ buf # <<>>
    THEN Evict(v, Tail(buf), dur - ChunkSeconds)
    ELSE <<buf, dur>>

\* The skip test of the analysis tick, under buffer_lock.
\* A context test that looks only at whether the buffer is empty.
OnlyEmptyIsTooShort(v, buf, dur) == Len(buf) = 0

NotEnoughContext(v, buf, dur) ==
    Len(buf) = 0 \/ dur * 10 < MinContextTenths(v)

\* ------------------------------------------------------------- the monitor
\* Outcomes of send_to_streaming_api other than a terminal payload.
ApiErrors == {"upload_failed", "prediction_failed", "no_event_id", "polling_timeout"}

\* Terminal payloads the monitor specifications draw from: a report of a real
\* voice, a report of a generated voice, a report the regexes do not match,
\* and a payload that is no text.
RealReport == Report(900, 100, FALSE, TRUE)
FakeReport == Report(150, 850, TRUE, TRUE)
OddReport == Report(NoMatch, NoMatch, FALSE, FALSE)
MonitorPayloads == {RealReport, FakeReport, OddReport, NonText}
PlainPayloads == {RealReport, FakeReport}

LoudAmp == 17

\* buffer_lock = threading.Lock(): nobody holds it.
Unlocked == <<"nobody", 0>>

\* StreamingDeepfakeMonitor.__init__
MonitorInit ==
    /\ variant \in Variants
    /\ now = EpochStart
    /\ is_monitoring = FALSE
    /\ streaming_buffer = <<>>
    /\ buffer_duration = 0
    /\ detection_history = <<>>
    /\ total_detections = 0
    /\ detection_latency = 0
    /\ last_alert_time = 0
    /\ consecutive_detections = 0
    /\ in_detection_event = FALSE
    /\ detection_event_start = 0
    /\ capture_pc = [i \in Slots |-> "none"]
    /\ analysis_pc = [i \in Slots |-> "none"]
    /\ alerts_fired = 0
    /\ run_len = 0
    /\ run_alerts = 0
    /\ tick_failed = FALSE
    /\ cur_event = <<>>
    /\ buffer_lock = Unlocked
    /\ stopped_threads = {}

buffer_vars == <<streaming_buffer, buffer_duration>>
event_vars == <<consecutive_detections, in_detection_event, detection_event_start>>
history_vars == <<detection_history, total_detections, detection_latency>>
alert_vars == <<last_alert_time, alerts_fired>>
run_vars == <<run_len, run_alerts, cur_event>>
tick_vars == <<tick_failed>>
thread_vars == <<capture_pc, analysis_pc>>

\* The threads of a duty that have not ended.
Alive(pc) == {i \in Slots : pc[i] # "none"}

\* An analysis thread that ends is no longer one of the stopped threads.
ThreadsEnd ==
    stopped_threads' = {j \in stopped_threads : analysis_pc'[j] # "none"}

\* The clock advances.
Tick ==
    /\ now < EpochStart + MaxElapsed
    /\ now' = now + 1
    /\ UNCHANGED <<service_vars, variant, buffer_lock, stopped_threads, is_monitoring,
                   buffer_vars, history_vars, event_vars,
                   alert_vars, run_vars, tick_vars, thread_vars>>

FreeSlot(pc) ==
    CHOOSE i \in Slots : pc[i] = "none" /\ \A j \in Slots : pc[j] = "none" => i <= j

\* start_monitoring.  The capture thread opens the device and blocks in its
\* first stream.read; the analysis thread blocks in its first sleep.
start_monitoring ==
    /\ \E i \in Slots : capture_pc[i] = "none"
    /\ \E i \in Slots : analysis_pc[i] = "none"
    /\ IF ~is_monitoring
       THEN /\ is_monitoring' = TRUE
            /\ capture_pc' = [capture_pc EXCEPT ![FreeSlot(capture_pc)] = "read"]
            /\ analysis_pc' = [analysis_pc EXCEPT ![FreeSlot(analysis_pc)] = "sleep"]
       ELSE UNCHANGED <<is_monitoring, thread_vars>>
    /\ UNCHANGED <<service_vars, variant, buffer_lock, stopped_threads, now, buffer_vars,
                   history_vars, event_vars, alert_vars, run_vars, tick_vars>>

\* A stop_monitoring that clears the buffer without waiting for the lock.
StopIgnoresLock == TRUE

\* stop_monitoring can enter `with self.buffer_lock`.
StopEntersLock == buffer_lock = Unlocked

\* stop_monitoring
stop_monitoring ==
    /\ is_monitoring => StopEntersLock
    /\ IF is_monitoring
       THEN /\ is_monitoring' = FALSE
            /\ stopped_threads' = Alive(analysis_pc)
            /\ streaming_buffer' = <<>>
            /\ buffer_duration' = 0
            /\ IF variant = "desktop"
               THEN /\ in_detection_event' = FALSE
                    /\ consecutive_detections' = 0
                    /\ detection_event_start' = 0
               ELSE UNCHANGED event_vars
            /\ run_len' = 0
            /\ run_alerts' = 0
       ELSE UNCHANGED <<is_monitoring, stopped_threads, buffer_vars, event_vars,
                        run_len, run_alerts>>
    /\ UNCHANGED <<service_vars, variant, buffer_lock, now, history_vars, alert_vars, cur_event, tick_vars,
                   thread_vars>>

\* trigger_streaming_alert
trigger_streaming_alert == alerts_fired' = alerts_fired + 1

\* test_alert
test_alert ==
    /\ alerts_fired < MaxAlerts
    /\ trigger_streaming_alert
    /\ UNCHANGED <<service_vars, variant, buffer_lock, stopped_threads, now, is_monitoring,
                   buffer_vars, history_vars,
                   event_vars, last_alert_time, run_vars, tick_vars, thread_vars>>

\* should_show_alert that forgets the cooldown.
ShowAlertWithoutCooldown == now > last_alert_time

\* should_show_alert with a strict comparison.
ShowAlertStrict == now - last_alert_time > alert_cooldown(variant)

\* should_show_alert
should_show_alert == now - last_alert_time >= alert_cooldown(variant)

\* An event state machine that leaves the count of an event standing when a
\* clean verdict ends it.
HandleDesktopKeepingCount(result) ==
    /\ in_detection_event' = result.is_suspicious
    /\ consecutive_detections' =
          IF result.is_suspicious
          THEN (IF in_detection_event THEN consecutive_detections + 1 ELSE 1)
          ELSE consecutive_detections
    /\ detection_event_start' =
          IF result.is_suspicious
          THEN (IF in_detection_event THEN detection_event_start ELSE now)
          ELSE 0
    /\ IF result.is_suspicious /\ ~in_detection_event /\ should_show_alert
       THEN /\ trigger_streaming_alert
            /\ last_alert_time' = now
            /\ run_alerts' = run_alerts + 1
       ELSE /\ UNCHANGED alert_vars
            /\ run_alerts' = IF result.is_suspicious THEN run_alerts ELSE 0
    /\ run_len' = IF result.is_suspicious THEN run_len + 1 ELSE 0
    /\ cur_event' = IF result.is_suspicious /\ ~in_detection_event
                    THEN <<now, should_show_alert>>
                    ELSE cur_event

\* An event state machine that alerts again inside an event once the
\* cooldown has elapsed.
HandleDesktopRealerting(result) ==
    /\ in_detection_event' = result.is_suspicious
    /\ consecutive_detections' =
          IF result.is_suspicious
          THEN (IF in_detection_event THEN consecutive_detections + 1 ELSE 1)
          ELSE 0
    /\ detection_event_start' =
          IF result.is_suspicious
          THEN (IF in_detection_event THEN detection_event_start ELSE now)
          ELSE 0
    /\ IF result.is_suspicious /\ should_show_alert
       THEN /\ trigger_streaming_alert
            /\ last_alert_time' = now
            /\ run_alerts' = run_alerts + 1
       ELSE /\ UNCHANGED alert_vars
            /\ run_alerts' = IF result.is_suspicious THEN run_alerts ELSE 0
    /\ run_len' = IF result.is_suspicious THEN run_len + 1 ELSE 0
    /\ cur_event' = IF result.is_suspicious /\ ~in_detection_event
                    THEN <<now, should_show_alert>>
                    ELSE cur_event

\* An event state machine whose events are never ended by a clean verdict.
HandleDesktopKeepingEvent(result) ==
    /\ in_detection_event' = (in_detection_event \/ result.is_suspicious)
    /\ consecutive_detections' =
          IF result.is_suspicious THEN consecutive_detections + 1
                                  ELSE consecutive_detections
    /\ detection_event_start' =
          IF result.is_suspicious /\ ~in_detection_event THEN now
                                                          ELSE detection_event_start
    /\ run_len' = IF result.is_suspicious THEN run_len + 1 ELSE 0
    /\ run_alerts' = IF result.is_suspicious THEN run_alerts ELSE 0
    /\ UNCHANGED <<alert_vars, cur_event>>

\* handle_streaming_result of src/desktop-app/deepfake_monitor.py, after the
\* history update: the event state machine.
HandleDesktop(result) ==
    IF result.is_suspicious
    THEN IF ~in_detection_event
         THEN /\ in_detection_event' = TRUE
              /\ detection_event_start' = now
              /\ consecutive_detections' = 1
              /\ IF should_show_alert
                 THEN /\ trigger_streaming_alert
                      /\ last_alert_time' = now
                      /\ run_alerts' = run_alerts + 1
                 ELSE UNCHANGED <<alert_vars, run_alerts>>
              /\ run_len' = run_len + 1
              /\ cur_event' = <<now, should_show_alert>>
         ELSE /\ consecutive_detections' = consecutive_detections + 1
              /\ run_len' = run_len + 1
              /\ UNCHANGED <<in_detection_event, detection_event_start,
                             alert_vars, run_alerts, cur_event>>
    ELSE /\ IF in_detection_event
            THEN /\ in_detection_event' = FALSE
                 /\ consecutive_detections' = 0
                 /\ detection_event_start' = 0
            ELSE UNCHANGED event_vars
         /\ run_len' = 0
         /\ run_alerts' = 0
         /\ UNCHANGED <<alert_vars, cur_event>>

\* handle_streaming_result of src/deepfake_monitor.py, after the history
\* update: the rate limit alone.
HandleRoot(result) ==
    /\ IF result.is_suspicious /\ should_show_alert
       THEN /\ trigger_streaming_alert
            /\ last_alert_time' = now
            /\ run_alerts' = run_alerts + 1
       ELSE /\ UNCHANGED alert_vars
            /\ run_alerts' = IF result.is_suspicious THEN run_alerts ELSE 0
    /\ run_len' = IF result.is_suspicious THEN run_len + 1 ELSE 0
    /\ UNCHANGED <<event_vars, cur_event>>

\* A history update that pops the newest entry instead of the oldest.
AppendHistoryPopNewest(history, result) ==
    LET h == Append(history, result)
    IN  IF Len(h) > HistoryCap THEN SubSeq(h, 1, Len(h) - 1) ELSE h

\* A history update that makes room one entry too early.
AppendHistoryCapEarly(history, result) ==
    LET h == Append(history, result)
    IN  IF Len(h) >= HistoryCap THEN Tail(h) ELSE h

\* The history update at the head of handle_streaming_result.
AppendHistory(history, result) ==
    LET h == Append(history, result)
    IN  IF Len(h) > HistoryCap THEN Tail(h) ELSE h

\* handle_streaming_result
handle_streaming_result(result) ==
    /\ total_detections' = total_detections + 1
    /\ detection_history' = AppendHistory(detection_history, result)
    /\ IF variant = "desktop" THEN HandleDesktop(result) ELSE HandleRoot(result)

\* audio_capture_thread: stream.read returns a chunk, which is appended and
\* the buffer trimmed under buffer_lock; then the test of
\* `while self.is_monitoring` either leaves the loop or blocks in the next read.
CaptureRead(i, amps) ==
    /\ capture_pc[i] = "read"
    /\ buffer_lock = Unlocked
    /\ \E a \in amps :
          LET e == Evict(variant, Append(streaming_buffer, a), buffer_duration + ChunkSeconds)
          IN  /\ streaming_buffer' = e[1]
              /\ buffer_duration' = e[2]
    /\ capture_pc' = [capture_pc EXCEPT ![i] = IF is_monitoring THEN "read" ELSE "none"]
    /\ UNCHANGED <<service_vars, variant, buffer_lock, now, is_monitoring, history_vars, event_vars,
                   alert_vars, run_vars, tick_vars, analysis_pc>>
    /\ ThreadsEnd

\* audio_capture_thread: the device cannot be opened or stream.read raises;
\* the thread ends.
CaptureFail(i) ==
    /\ capture_pc[i] = "read"
    /\ capture_pc' = [capture_pc EXCEPT ![i] = "none"]
    /\ UNCHANGED <<service_vars, variant, buffer_lock, now, is_monitoring, buffer_vars, history_vars,
                   event_vars, alert_vars, run_vars, tick_vars, analysis_pc>>
    /\ ThreadsEnd

\* What the tick does with the buffer: "skip" (not enough context), "quiet"
\* (volume below the threshold) or "infer".
TickDecision(v, buf, dur) ==
    IF NotEnoughContext(v, buf, dur) THEN "skip"
    ELSE IF IsTooQuiet(v, buf) THEN "quiet"
    ELSE "infer"

\* streaming_analysis_thread: the sleep ends.  `if not self.is_monitoring:
\* break`; else the buffer test and copy under buffer_lock and the volume test,
\* after which the tick is over (back to the sleep) or process_streaming_chunk
\* waits for send_to_streaming_api.
AnalysisTick(j) ==
    /\ analysis_pc[j] = "sleep"
    /\ is_monitoring => buffer_lock = Unlocked
    /\ analysis_pc' = [analysis_pc EXCEPT ![j] =
          IF ~is_monitoring THEN "none"
          ELSE IF TickDecision(variant, streaming_buffer, buffer_duration) = "infer"
               THEN "infer" ELSE "sleep"]
    /\ UNCHANGED <<service_vars, variant, buffer_lock, now, is_monitoring, buffer_vars, history_vars,
                   event_vars, alert_vars, run_vars, tick_vars, capture_pc>>
    /\ ThreadsEnd

\* streaming_analysis_thread after process_streaming_chunk: the test of
\* `while self.is_monitoring`.
AfterChunk(j) ==
    analysis_pc' = [analysis_pc EXCEPT ![j] = IF is_monitoring THEN "sleep" ELSE "none"]

\* process_streaming_chunk that hands every result, error results included,
\* to handle_streaming_result.
ProcessChunkHandlingErrors(result) ==
    /\ tick_failed' = result.error
    /\ detection_latency' = detection_latency + 1
    /\ handle_streaming_result(result)

\* process_streaming_chunk for a result of send_to_streaming_api.
process_streaming_chunk(result) ==
    /\ tick_failed' = result.error
    /\ IF ~result.error
       THEN /\ detection_latency' = detection_latency + 1
            /\ handle_streaming_result(result)
       ELSE UNCHANGED <<history_vars, event_vars, alert_vars, run_vars>>

\* process_streaming_chunk: send_to_streaming_api returns an error result
\* (upload or prediction not OK, no event id, polling timeout).
InferenceError(j) ==
    /\ analysis_pc[j] = "infer"
    /\ \E e \in ApiErrors : process_streaming_chunk(ErrorResult("ERROR", 0))
    /\ AfterChunk(j)
    /\ UNCHANGED <<service_vars, variant, buffer_lock, now, is_monitoring, buffer_vars, capture_pc>>
    /\ ThreadsEnd

\* process_streaming_chunk: polling returns a terminal payload, which
\* parse_streaming_result turns into the result.
InferenceResult(j, payloads, limit) ==
    /\ analysis_pc[j] = "infer"
    /\ total_detections < limit
    /\ \E p \in payloads :
          process_streaming_chunk(parse_streaming_result(variant, p))
    /\ AfterChunk(j)
    /\ UNCHANGED <<service_vars, variant, buffer_lock, now, is_monitoring, buffer_vars, capture_pc>>
    /\ ThreadsEnd

\* audio_capture_thread: stream.read has returned a chunk and the thread
\* enters `with self.buffer_lock`.
CaptureAcquire(i) ==
    /\ capture_pc[i] = "read"
    /\ buffer_lock = Unlocked
    /\ buffer_lock' = <<"capture", i>>
    /\ capture_pc' = [capture_pc EXCEPT ![i] = "append"]
    /\ UNCHANGED <<service_vars, variant, now, is_monitoring, buffer_vars, history_vars,
                   event_vars, alert_vars, run_vars, tick_vars, analysis_pc,
                   stopped_threads>>

\* audio_capture_thread inside `with self.buffer_lock`: append, evict, leave
\* the block, test `while self.is_monitoring`.
CaptureAppend(i, amps) ==
    /\ capture_pc[i] = "append"
    /\ \E a \in amps :
          LET e == Evict(variant, Append(streaming_buffer, a), buffer_duration + ChunkSeconds)
          IN  /\ streaming_buffer' = e[1]
              /\ buffer_duration' = e[2]
    /\ buffer_lock' = Unlocked
    /\ capture_pc' = [capture_pc EXCEPT ![i] = IF is_monitoring THEN "read" ELSE "none"]
    /\ UNCHANGED <<service_vars, variant, now, is_monitoring, history_vars, event_vars,
                   alert_vars, run_vars, tick_vars, analysis_pc>>
    /\ ThreadsEnd

\* streaming_analysis_thread: the sleep ends.  `if not self.is_monitoring:
\* break`; else the thread enters `with self.buffer_lock`.
AnalysisAcquire(j) ==
    /\ analysis_pc[j] = "sleep"
    /\ is_monitoring => buffer_lock = Unlocked
    /\ buffer_lock' = IF is_monitoring THEN <<"analysis", j>> ELSE buffer_lock
    /\ analysis_pc' = [analysis_pc EXCEPT ![j] = IF is_monitoring THEN "copy" ELSE "none"]
    /\ UNCHANGED <<service_vars, variant, now, is_monitoring, buffer_vars, history_vars,
                   event_vars, alert_vars, run_vars, tick_vars, capture_pc>>
    /\ ThreadsEnd

\* The lock that is never released at the end of the with block.
LockKeptAfterCopy(j) == <<"analysis", j>>

\* buffer_lock when the analysis thread leaves its with block.
LockAfterCopy(j) == Unlocked

\* streaming_analysis_thread inside `with self.buffer_lock`: the context
\* test, on which it may `continue`, and the copy of the buffer; the thread
\* leaves the block.  The copy is "loud" or "quiet" for the volume test.
AnalysisCopy(j) ==
    /\ analysis_pc[j] = "copy"
    /\ buffer_lock' = LockAfterCopy(j)
    /\ analysis_pc' = [analysis_pc EXCEPT ![j] =
          CASE TickDecision(variant, streaming_buffer, buffer_duration) = "skip" -> "sleep"
            [] TickDecision(variant, streaming_buffer, buffer_duration) = "quiet" -> "quiet"
            [] OTHER -> "loud"]
    /\ UNCHANGED <<service_vars, variant, now, is_monitoring, buffer_vars, history_vars,
                   event_vars, alert_vars, run_vars, tick_vars, capture_pc,
                   stopped_threads>>

\* streaming_analysis_thread: calculate_rms of the copy and the volume test,
\* after which the tick is over or process_streaming_chunk encodes the copy
\* and waits for send_to_streaming_api.
AnalysisVolume(j) ==
    /\ analysis_pc[j] \in {"quiet", "loud"}
    /\ analysis_pc' = [analysis_pc EXCEPT ![j] =
          IF analysis_pc[j] = "quiet" THEN "sleep" ELSE "infer"]
    /\ UNCHANGED <<service_vars, variant, buffer_lock, now, is_monitoring, buffer_vars,
                   history_vars, event_vars, alert_vars, run_vars, tick_vars, capture_pc,
                   stopped_threads>>

\* The monitor's threads with every entry to and exit from buffer_lock a
\* step of its own.
LockNext ==
    \/ start_monitoring
    \/ stop_monitoring
    \/ \E i \in Slots : CaptureAcquire(i)
    \/ \E i \in Slots : CaptureAppend(i, Amps)
    \/ \E j \in Slots : AnalysisAcquire(j)
    \/ \E j \in Slots : AnalysisCopy(j)
    \/ \E j \in Slots : AnalysisVolume(j)
    \/ \E j \in Slots : InferenceError(j)
    \/ \E j \in Slots : InferenceResult(j, PlainPayloads, MaxVerdicts)

\* The monitor with its threads; the clock stands still.
MonitorNext ==
    \/ start_monitoring
    \/ stop_monitoring
    \/ test_alert
    \/ \E i \in Slots : CaptureRead(i, Amps)
    \/ \E i \in Slots : CaptureFail(i)
    \/ \E j \in Slots : AnalysisTick(j)
    \/ \E j \in Slots : InferenceError(j)
    \/ \E j \in Slots : InferenceResult(j, MonitorPayloads, MaxVerdicts)

\* The monitor over time, fed loud audio and well-formed reports.
EventsNext ==
    \/ Tick
    \/ start_monitoring
    \/ stop_monitoring
    \/ test_alert
    \/ \E i \in Slots : CaptureRead(i, {LoudAmp})
    \/ \E j \in Slots : AnalysisTick(j)
    \/ \E j \in Slots : InferenceResult(j, PlainPayloads, MaxVerdicts)

\* A second report of a real voice.
RealReport2 == Report(800, 200, FALSE, TRUE)

\* The monitor after HistoryStart clean verdicts handled by one analysis
\* thread: monitoring, both threads in their loops, no event, no alert yet.
HistoryMonitorInit ==
    /\ variant \in Variants
    /\ now = EpochStart
    /\ is_monitoring = TRUE
    /\ LET e == Evict(variant, <<LoudAmp, LoudAmp>>, 2 * ChunkSeconds)
       IN  streaming_buffer = e[1] /\ buffer_duration = e[2]
    /\ detection_history =
          [i \in 1..HistoryStart |->
              parse_streaming_result(variant,
                  IF i % 2 = 1 THEN RealReport ELSE RealReport2)]
    /\ total_detections = HistoryStart
    /\ detection_latency = HistoryStart
    /\ last_alert_time = 0
    /\ consecutive_detections = 0
    /\ in_detection_event = FALSE
    /\ detection_event_start = 0
    /\ capture_pc = [i \in Slots |-> IF i = 1 THEN "read" ELSE "none"]
    /\ analysis_pc = [i \in Slots |-> IF i = 1 THEN "sleep" ELSE "none"]
    /\ alerts_fired = 0
    /\ run_len = 0
    /\ run_alerts = 0
    /\ tick_failed = FALSE
    /\ cur_event = <<>>
    /\ buffer_lock = Unlocked
    /\ stopped_threads = {}

\* The monitor handling verdicts around the capacity of the history.
HistoryNext ==
    \/ start_monitoring
    \/ stop_monitoring
    \/ test_alert
    \/ \E i \in Slots : CaptureRead(i, {LoudAmp})
    \/ \E j \in Slots : AnalysisTick(j)
    \/ \E j \in Slots : InferenceError(j)
    \/ \E j \in Slots : InferenceResult(j, MonitorPayloads, HistoryStart + MaxVerdicts)

\* ------------------------------------------------------- building verdicts
\* Softmax outputs for the fake class, in units of 10^-4: a grid and the two
\* values next to one half that print as 50.0%.
Probs == {(10000 \div ProbSteps) * k : k \in 0..ProbSteps} \cup {4997, 5003}

\* A result dict with nothing but an 'error' entry.
ErrorOnly == ErrorResult("NONE", 0)

\* predict_audio_file of src/app.py for the model's fake probability.
predict_audio_file(fake_prob) ==
    Verdict(IF fake_prob > 5000 THEN "FAKE" ELSE "REAL",
            10000 - fake_prob, fake_prob, fake_prob > 7000)

\* ChromeExtensionServer.process_audio_chunk of src/chrome_extension_server.py:
\* the result for the model's fake probability.
process_audio_chunk(fake_prob) ==
    Verdict(IF fake_prob > 5000 THEN "FAKE" ELSE "REAL",
            10000 - fake_prob, fake_prob, fake_prob > 7000)

\* f"{p:.1%}": tenths of a percent, to the nearest.
OneDecimalPercent(p) == (p + 5) \div 10

\* format_result_for_ui
format_result_for_ui(result) ==
    IF result.error
    THEN Report(NoMatch, NoMatch, FALSE, FALSE)
    ELSE Report(OneDecimalPercent(result.real), OneDecimalPercent(result.fake),
                result.prediction = "FAKE", TRUE)

\* The dict of the except branch of HuggingFaceDeepfakeAPI.detect_deepfake.
ClientErrorResult ==
    [error |-> TRUE, prediction |-> "ERROR", confidence |-> 0,
     real |-> 5000, fake |-> 5000, is_suspicious |-> FALSE]

\* No result: the call raised.
Raised == ErrorResult("RAISED", 0)

\* A function body without its try/except.
ExceptMissing(outcome, error_result) == outcome

\* try: body / except Exception: return error_result
ExceptToError(outcome, error_result) ==
    IF outcome = Raised THEN error_result ELSE outcome

\* HuggingFaceDeepfakeAPI.parse_result; for a payload that is not text
\* re.search raises in the try block and markdown_result.lower() raises in
\* the fallback.
parse_result(markdown_result) ==
    IF ~markdown_result.text
    THEN Raised
    ELSE LET real_prob == MatchedProb(markdown_result.real)
             fake_prob == MatchedProb(markdown_result.fake)
             is_fake == fake_prob > real_prob \/ markdown_result.ai_words
         IN  Verdict(IF is_fake THEN "FAKE" ELSE "REAL", real_prob, fake_prob,
                     fake_prob > 6000)

\* Payloads that are not a report of the web app: no percentages, only the
\* fake percentage missing, not text.
OtherPayloads ==
    {OddReport, Report(700, NoMatch, FALSE, TRUE), NonText}

\* /api/history has not been asked.
NoResponse == [detections |-> <<>>, total |-> NoMatch]

VerdictInit ==
    /\ verdict = ErrorOnly
    /\ builder = "none"
    /\ report = NonText
    /\ detections = <<>>
    /\ server = "local"
    /\ history_response = NoResponse
    /\ api_calls = 0
    /\ alert_threshold = InitialAlertThreshold(variant)
    /\ payload = NonText

\* Inputs of predict_audio_file: no file, a file from which no features can
\* be extracted, a clip on which the model raises, a clip it classifies.
Clips == {"missing", "unreadable", "model_fails", "speech"}

\* The try block of predict_audio_file.
PredictBody(clip, fake_prob) ==
    CASE clip = "missing" -> ErrorOnly
      [] clip = "unreadable" -> ErrorOnly
      [] clip = "model_fails" -> Raised
      [] clip = "speech" -> predict_audio_file(fake_prob)

\* The web app is asked to classify a clip.
PredictAudioFile ==
    /\ \E clip \in Clips, fake_prob \in Probs :
          verdict' = ExceptToError(PredictBody(clip, fake_prob), ErrorOnly)
    /\ builder' = "predict_audio_file"
    /\ UNCHANGED <<report, server_vars, alert_threshold, payload, monitor_vars, remote_vars, startup_vars, feature_vars, detector_vars, temp_vars>>

\* The web app's interface formats the result it has just got.
FormatResultForUi ==
    /\ builder = "predict_audio_file"
    /\ report' = format_result_for_ui(verdict)
    /\ UNCHANGED <<verdict, builder, server_vars, alert_threshold, payload, monitor_vars, remote_vars, startup_vars, feature_vars, detector_vars, temp_vars>>

\* The Chrome-extension server classifies a chunk and stores the result, or
\* fails.
\* What process_audio_chunk is given: audio no features come from, a model or
\* client call that raises, a remote call that returns an error dict, or
\* audio that is classified.
ChunkKinds == {"bad_audio", "call_raises", "remote_error", "speech"}

\* No temporary audio file is on disk.
NoTempFiles == temp_files = {}

\* The operations that write the audio they are given to a temporary file.
TempFileUsers ==
    {"send_to_streaming_api", "process_audio_chunk", "predict_audio_chunk"}

\* The operation returns on that path without removing its file:
\* process_audio_chunk unlinks before both returns of its try block and not
\* in its except branch, predict_audio_chunk removes only on success,
\* send_to_streaming_api unlinks in a finally block.
LeavesTempFile(op, path) ==
    CASE op = "process_audio_chunk" -> path = "raised"
      [] op = "predict_audio_chunk" -> path \in {"extraction_failed", "raised"}
      [] OTHER -> FALSE

\* The files on disk when the operation has returned.  NamedTemporaryFile
\* gives every call of process_audio_chunk a fresh name, so a file an
\* earlier call left stays; temp_audio.wav is one fixed name.
AfterReturn(files, op, path) ==
    IF LeavesTempFile(op, path) THEN files \cup {op}
    ELSE IF op = "process_audio_chunk" THEN files
    ELSE files \ {op}

\* How the local server's process_audio_chunk returns for a chunk.
ChunkPath(kind) ==
    CASE kind = "bad_audio" -> "extraction_failed"
      [] kind = "speech" -> "success"
      [] OTHER -> "raised"

\* The try block of process_audio_chunk, in the server with the local model
\* and in the one that calls the remote API.
ProcessBody(srv, kind, fake_prob, p) ==
    IF srv = "local"
    THEN CASE kind = "bad_audio" -> ErrorOnly
           [] kind \in {"call_raises", "remote_error"} -> Raised
           [] OTHER -> process_audio_chunk(fake_prob)
    ELSE CASE kind \in {"bad_audio", "remote_error"} -> ClientErrorResult
           [] kind = "call_raises" -> Raised
           [] OTHER -> ExceptToError(parse_result(p), ClientErrorResult)

\* The dict of process_audio_chunk's except branch.
ProcessError(srv) == IF srv = "local" THEN ErrorOnly ELSE ClientErrorResult

\* "Keep only last 1000 detections"
StoreDetection(dets, result) ==
    LET d == Append(dets, result)
    IN  IF Len(d) > DetectionsCap
        THEN SubSeq(d, Len(d) - DetectionsCap + 1, Len(d))
        ELSE d

\* A server that stores error results too.
KeepEveryResult(result) == TRUE

\* The result reaches self.detections.append: `if not result.get('error')`,
\* or no return and no exception before it.
IsStored(result) == ~result.error

\* What the remote API answers the server that calls it; the server with the
\* local model receives no payload.
ApiPayloads(srv) ==
    IF srv = "local" THEN {NonText} ELSE PlainPayloads \cup {NonText}

\* ChromeExtensionServer.process_audio_chunk
ProcessAudioChunk(limit, probs) ==
    /\ \E kind \in ChunkKinds, fake_prob \in probs, p \in ApiPayloads(server) :
          LET result == ExceptToError(ProcessBody(server, kind, fake_prob, p),
                                      ProcessError(server))
          IN  /\ IsStored(result) => Len(detections) < limit
              /\ verdict' = result
              /\ detections' = IF IsStored(result)
                               THEN StoreDetection(detections, result)
                               ELSE detections
              /\ temp_files' = IF server = "local"
                               THEN AfterReturn(temp_files, "process_audio_chunk",
                                                ChunkPath(kind))
                               ELSE temp_files
    /\ builder' = "process_audio_chunk"
    /\ UNCHANGED <<report, server, history_response, alert_threshold, payload, monitor_vars,
                   remote_vars, startup_vars, feature_vars, detector_vars>>

\* A monitor parses a terminal payload.
ParseStreamingResult ==
    /\ \E p \in {report} \cup OtherPayloads :
          /\ payload' = p
          /\ verdict' = parse_streaming_result(variant, p)
    /\ builder' = "parse_streaming_result"
    /\ UNCHANGED <<report, server_vars, alert_threshold, monitor_vars, remote_vars, startup_vars, feature_vars, detector_vars, temp_vars>>

\* The API client parses a terminal payload.
ParseResult ==
    /\ \E p \in {report} \cup OtherPayloads :
          /\ payload' = p
          /\ verdict' = parse_result(p)
    /\ builder' = "parse_result"
    /\ UNCHANGED <<report, server_vars, alert_threshold, monitor_vars, remote_vars, startup_vars, feature_vars, detector_vars, temp_vars>>

\* The monitor's alert_threshold attribute is given another value.
SetAlertThreshold ==
    /\ \E t \in AlertThresholds : alert_threshold' = t
    /\ UNCHANGED <<verdict, builder, report, server_vars, payload, monitor_vars, remote_vars, startup_vars, feature_vars, detector_vars, temp_vars>>

VerdictsNext ==
    \/ SetAlertThreshold
    \/ PredictAudioFile
    \/ FormatResultForUi
    \/ ProcessAudioChunk(MaxDetections, Probs) /\ UNCHANGED api_calls
    \/ ParseStreamingResult
    \/ ParseResult

\* ---------------------------------------------------------- the remote call
\* The submit-then-poll call of send_to_streaming_api ("monitor") and of
\* HuggingFaceDeepfakeAPI.detect_deepfake ("client").
Callers == {"monitor", "client"}

\* The requests of the call, in order.
Requests == {"upload", "predict", "poll"}

\* timeout=None of requests: the request waits as long as the server is silent.
NoTimeout == -1

\* The timeout argument of the request, in seconds.
RequestTimeout(c, request) ==
    IF c = "monitor"
    THEN IF request = "poll" THEN 5 ELSE 10
    ELSE NoTimeout

\* max_attempts of poll_streaming_results and of poll_results.
max_attempts(c) == IF c = "monitor" THEN 15 ELSE 30

\* The except branch of send_to_streaming_api and of detect_deepfake.
CallerErrorResult(c) == IF c = "monitor" THEN ErrorOnly ELSE ClientErrorResult

\* The parser the caller gives the terminal payload to.
CallerParse(c, v, p) ==
    IF c = "monitor" THEN parse_streaming_result(v, p) ELSE parse_result(p)

\* The try/except of send_to_streaming_api and of detect_deepfake around the
\* steps of the call: an exception becomes the caller's error result.
GuardedCall(c, outcome) == ExceptToError(outcome, CallerErrorResult(c))

RemoteInit ==
    /\ caller = "monitor"
    /\ call_pc = "idle"
    /\ attempt = 0
    /\ call_end = "none"

\* The call returns `result` to its caller.
CallReturns(result, how) ==
    /\ verdict' = result
    /\ builder' = IF caller = "monitor" THEN "send_to_streaming_api" ELSE "detect_deepfake"
    /\ call_pc' = "returned"
    /\ call_end' = how
    /\ temp_files' =
          IF caller = "monitor"
          THEN AfterReturn(temp_files, "send_to_streaming_api",
                           IF how = "payload" THEN "success" ELSE "raised")
          ELSE temp_files

remote_frame == <<report, server_vars, alert_threshold, monitor_vars, startup_vars,
                  feature_vars, detector_vars>>

\* send_to_streaming_api / detect_deepfake is called: the upload request.
StartCall ==
    /\ call_pc \in {"idle", "returned"}
    /\ \E c \in Callers :
          /\ caller' = c
          /\ temp_files' = IF c = "monitor"
                           THEN temp_files \cup {"send_to_streaming_api"}
                           ELSE temp_files
    /\ call_pc' = "upload"
    /\ attempt' = 0
    /\ call_end' = "none"
    /\ UNCHANGED <<verdict, builder, payload, remote_frame>>

\* The upload or the prediction request is answered well: the next request
\* is made.
RequestSucceeds ==
    /\ call_pc \in {"upload", "predict"}
    /\ call_pc' = IF call_pc = "upload" THEN "predict" ELSE "poll"
    /\ attempt' = IF call_pc = "predict" THEN 1 ELSE attempt
    /\ UNCHANGED <<caller, call_end, verdict, builder, payload, temp_files,
                   remote_frame>>

\* The upload or the prediction request fails: a response that is not OK, no
\* event id, a connection error; the step raises.
RequestFails ==
    /\ call_pc \in {"upload", "predict"}
    /\ CallReturns(GuardedCall(caller, Raised), "failed")
    /\ UNCHANGED <<caller, attempt, payload, remote_frame>>

\* The server stays silent and the timeout of the request expires.
RequestTimesOut ==
    /\ call_pc \in Requests
    /\ RequestTimeout(caller, call_pc) # NoTimeout
    /\ IF call_pc = "poll" /\ attempt < max_attempts(caller)
       THEN /\ attempt' = attempt + 1
            /\ UNCHANGED <<caller, call_pc, call_end, verdict, builder, temp_files>>
       ELSE /\ CallReturns(GuardedCall(caller, Raised),
                           IF call_pc = "poll" THEN "exhausted" ELSE "failed")
            /\ UNCHANGED <<caller, attempt>>
    /\ UNCHANGED <<payload, remote_frame>>

\* A polling request ends without a terminal payload (response not OK, no
\* data line, connection error): the next attempt, or the loop is over and
\* the polling function raises.
PollPending ==
    /\ call_pc = "poll"
    /\ IF attempt < max_attempts(caller)
       THEN /\ attempt' = attempt + 1
            /\ UNCHANGED <<caller, call_pc, call_end, verdict, builder, temp_files>>
       ELSE /\ CallReturns(GuardedCall(caller, Raised), "exhausted")
            /\ UNCHANGED <<caller, attempt>>
    /\ UNCHANGED <<payload, remote_frame>>

\* A polling request brings a terminal payload, which is parsed.
PollTerminal ==
    /\ call_pc = "poll"
    /\ \E p \in PlainPayloads \cup OtherPayloads :
          /\ payload' = p
          /\ CallReturns(GuardedCall(caller, CallerParse(caller, variant, p)), "payload")
    /\ UNCHANGED <<caller, attempt, remote_frame>>

RemoteNext ==
    \/ StartCall
    \/ RequestSucceeds
    \/ RequestFails
    \/ RequestTimesOut
    \/ PollPending
    \/ PollTerminal

\* ------------------------------------------------------ starting a service

Services == {"web_app", "chrome_server", "mobile_app"}

WeightFiles == {"present", "absent", "corrupt"}

\* DeepfakeMobileApp.sensitivity, in 1e-4.
MobileSensitivity == 7500

\* Loading the weights: "loaded", "raised" (the exception leaves the
\* loader) or "returned_false" (the loader logs and returns False).
\* app.py calls torch.load at module level; ChromeExtensionServer.load_model
\* raises FileNotFoundError and re-raises whatever it catches;
\* DeepfakeMobileApp.load_model returns False for a missing file and from
\* its except branch.
load_model(s, w) ==
    IF w = "present" THEN "loaded"
    ELSE IF s = "mobile_app" THEN "returned_false"
    ELSE "raised"

\* No service has been launched.
StartupInit ==
    /\ service = "none"
    /\ weight_file = "present"
    /\ service_state = "down"
    /\ model_loaded = FALSE

\* A service is launched: the module body of app.py up to
\* interface.launch(), ChromeExtensionServer() then run(), or
\* DeepfakeMobileApp() then run().  The constructors do not look at what
\* load_model returns.
Launch ==
    /\ service_state = "down"
    /\ \E s \in Services, w \in WeightFiles :
          /\ service' = s
          /\ weight_file' = w
          /\ model_loaded' = (load_model(s, w) = "loaded")
          /\ service_state' = IF load_model(s, w) = "raised" THEN "failed" ELSE "running"
    /\ UNCHANGED <<verdict_vars, remote_vars, monitor_vars, feature_vars, detector_vars, temp_vars>>

\* The web app serves a request: predict_audio_file, format_result_for_ui.
WebAppServes ==
    /\ service = "web_app" /\ service_state = "running"
    /\ PredictAudioFile \/ FormatResultForUi

\* The Chrome-extension server serves a request.
ChromeServerServes ==
    /\ service = "chrome_server" /\ service_state = "running"
    /\ ProcessAudioChunk(MaxDetections, Probs)
    /\ UNCHANGED api_calls

\* DeepfakeMobileApp._analyze_file's result for a clip the model classifies.
analyze_file(fake_prob) ==
    Verdict(IF fake_prob > 5000 THEN "FAKE" ELSE "REAL",
            10000 - fake_prob, fake_prob,
            fake_prob > 5000 /\ Max(10000 - fake_prob, fake_prob) > MobileSensitivity)

\* DeepfakeMobileApp._analyze_file: "Model not loaded" when self.model is
\* None, else the verdict.
MobileAppAnalyzes ==
    /\ service = "mobile_app" /\ service_state = "running"
    /\ IF ~model_loaded
       THEN verdict' = ErrorOnly
       ELSE \E fake_prob \in Probs : verdict' = analyze_file(fake_prob)
    /\ builder' = "_analyze_file"
    /\ UNCHANGED <<report, server_vars, alert_threshold, payload, monitor_vars, remote_vars,
                   startup_vars, feature_vars, detector_vars, temp_vars>>

StartupNext ==
    \/ Launch
    \/ WebAppServes
    \/ ChromeServerServes
    \/ MobileAppAnalyzes

\* ------------------------------------------------------ feature extraction

\* AudioFeatureExtractor.__init__(n_mels=128, max_len=128)
n_mels == 128
max_len == 128

\* The fill of np.pad(..., mode='constant') without constant_values.
PadValue == 0

\* constant_values of the padding in create_reference_features.
ReferencePadValue == -80

\* How a clip fails to load, or "speech": it decodes.
ClipKinds == {"corrupt", "unreadable_format", "zero_length", "speech"}

\* The dB level of time frame i of a clip: all frames at the maximum, all at
\* the floor, or levels in between.
FramePatterns == {"loud", "floor", "ramp"}
Level(pattern, i) ==
    CASE pattern = "loud" -> 0
      [] pattern = "floor" -> -80
      [] OTHER -> 0 - ((7 * i) % 81)

\* The clips: those that fail, and those whose mel spectrogram has n time
\* frames (a column is its dB level).
ClipInputs ==
    {[kind |-> k, frames |-> <<>>] : k \in ClipKinds \ {"speech"}}
    \cup {[kind |-> "speech", frames |-> [i \in 1..n |-> Level(pt, i)]] :
             n \in 0..MaxFrames, pt \in FramePatterns}

\* A matrix of n_mels rows whose columns are cols.
Spectrogram(cols) == [none |-> FALSE, rows |-> n_mels, cols |-> cols]

None == [none |-> TRUE, rows |-> 0, cols |-> <<>>]

\* Truncation that keeps the last max_len columns.
TruncateKeepingLast(mel_spec_db, fill) ==
    LET n == Len(mel_spec_db.cols)
    IN  IF n < max_len
        THEN [mel_spec_db EXCEPT !.cols = @ \o [i \in 1..(max_len - n) |-> fill]]
        ELSE [mel_spec_db EXCEPT !.cols = SubSeq(@, n - max_len + 1, n)]

\* "Pad or truncate to fixed length": np.pad on the right of the time axis
\* with the fill value, or mel_spec_db[:, :max_len].
PadOrTruncate(mel_spec_db, fill) ==
    LET n == Len(mel_spec_db.cols)
    IN  IF n < max_len
        THEN [mel_spec_db EXCEPT !.cols = @ \o [i \in 1..(max_len - n) |-> fill]]
        ELSE [mel_spec_db EXCEPT !.cols = SubSeq(@, 1, max_len)]

\* AudioFeatureExtractor.extract_mel_spectrogram: whatever raises inside the
\* try block gives None.
extract_mel_spectrogram(c) ==
    IF c.kind # "speech" THEN None
    ELSE PadOrTruncate(Spectrogram(c.frames), PadValue)

\* create_reference_features for one test file: the matrix it flattens, None
\* when the file raises.
create_reference_features(c) ==
    IF c.kind # "speech" THEN None
    ELSE PadOrTruncate(Spectrogram(c.frames), ReferencePadValue)

\* The callers of extract_mel_spectrogram.
FeatureCallers ==
    {"predict_audio_file", "process_audio_chunk", "_analyze_file", "predict_audio_chunk"}

\* RealTimeDetector.predict_audio_chunk returns (fake_prob, prediction).
predict_audio_chunk(fake_prob) ==
    [error |-> FALSE, prediction |-> IF fake_prob > 5000 THEN "FAKE" ELSE "REAL",
     confidence |-> fake_prob, real |-> NoMatch, fake |-> fake_prob,
     is_suspicious |-> FALSE]

\* What a caller returns for the model's fake probability.
CallerVerdict(c, fake_prob) ==
    CASE c = "predict_audio_file" -> predict_audio_file(fake_prob)
      [] c = "process_audio_chunk" -> process_audio_chunk(fake_prob)
      [] c = "_analyze_file" -> analyze_file(fake_prob)
      [] OTHER -> predict_audio_chunk(fake_prob)

\* What a caller returns when features is None: an 'error' dict, the error
\* message shown by _analyze_file, or (0.5, "Error").
ExtractionError(c) ==
    IF c = "predict_audio_chunk"
    THEN [error |-> TRUE, prediction |-> "Error", confidence |-> 5000,
          real |-> NoMatch, fake |-> 5000, is_suspicious |-> FALSE]
    ELSE ErrorOnly

\* A caller that runs the model on whatever the extraction returned.
FeaturesAlwaysUsable(f) == TRUE

\* `if features is None:` is not taken.
FeaturesUsable(f) == ~f.none

\* No clip has been given to the extractor.
FeatureIdle ==
    /\ audio_path = [kind |-> "zero_length", frames |-> <<>>]
    /\ features = None
    /\ model_calls = 0

\* A clip is about to be given to the extractor.
FeatureInputs ==
    /\ audio_path \in ClipInputs
    /\ features = None
    /\ model_calls = 0

\* A caller extracts the features of the clip and, unless they are None,
\* runs the model on them.
ExtractAndClassify(c) ==
    /\ model_calls < MaxModelCalls
    /\ LET f == extract_mel_spectrogram(audio_path)
       IN  /\ features' = f
           /\ IF FeaturesUsable(f)
              THEN /\ \E fake_prob \in Probs : verdict' = CallerVerdict(c, fake_prob)
                   /\ model_calls' = model_calls + 1
              ELSE /\ verdict' = ExtractionError(c)
                   /\ model_calls' = model_calls
           /\ temp_files' =
                 IF c \in TempFileUsers
                 THEN AfterReturn(temp_files, c,
                                  IF FeaturesUsable(f) THEN "success"
                                                       ELSE "extraction_failed")
                 ELSE temp_files
    /\ builder' = c
    /\ UNCHANGED <<audio_path, report, server_vars, alert_threshold, payload, monitor_vars,
                   remote_vars, startup_vars, detector_vars>>

\* create_reference_features processes the clip.
CreateReferenceFeatures ==
    /\ features' = create_reference_features(audio_path)
    /\ builder' = "create_reference_features"
    /\ UNCHANGED <<audio_path, model_calls, verdict, report, server_vars, alert_threshold,
                   payload, monitor_vars, remote_vars, startup_vars, detector_vars, temp_vars>>

FeaturesNext ==
    \/ \E c \in FeatureCallers : ExtractAndClassify(c)
    \/ CreateReferenceFeatures

\* ------------------------------------------------- the detection server

\* detections[-50:] of /api/history
HistoryPage == 50

\* A list long enough that the requests of a run never fill it.
ServerLimit == DetectionsCap + MaxApiCalls + 1

\* Probabilities of the model in the server specification.
ServerProbs == {4997, 5003}

\* test_result of /api/test
TestResult == Verdict("FAKE", 1500, 8500, TRUE)

\* The last n entries of a list: list[-n:].
LastN(list, n) ==
    IF Len(list) <= n THEN list ELSE SubSeq(list, Len(list) - n + 1, Len(list))

\* The server after DetectionsStart stored results.
ServerInit ==
    /\ verdict = ErrorOnly
    /\ builder = "none"
    /\ report = NonText
    /\ server \in {"local", "remote"}
    /\ detections =
          [i \in 1..DetectionsStart |->
              IF server = "local"
              THEN process_audio_chunk(IF i % 2 = 1 THEN 4997 ELSE 5003)
              ELSE parse_result(IF i % 2 = 1 THEN RealReport ELSE FakeReport)]
    /\ history_response = NoResponse
    /\ api_calls = 0
    /\ alert_threshold = InitialAlertThreshold(variant)
    /\ payload = NonText

\* What the routes leave alone.
route_frame == <<report, server, alert_threshold, payload, monitor_vars, remote_vars,
                 startup_vars, feature_vars, detector_vars, temp_vars>>

\* /api/detect answers without calling process_audio_chunk: no 'audio_data'
\* (400), or no JSON body or bad base64, which raise (500).
DetectRejects ==
    /\ verdict' = ErrorOnly
    /\ builder' = "api_detect"
    /\ UNCHANGED <<detections, history_response, route_frame>>

\* POST /api/detect
ApiDetect ==
    /\ api_calls < MaxApiCalls
    /\ api_calls' = api_calls + 1
    /\ DetectRejects \/ ProcessAudioChunk(ServerLimit, ServerProbs)

\* POST /api/test, a route of the server that calls the remote API.
ApiTest ==
    /\ api_calls < MaxApiCalls
    /\ server = "remote"
    /\ api_calls' = api_calls + 1
    /\ detections' = Append(detections, TestResult)
    /\ verdict' = TestResult
    /\ builder' = "test_detection"
    /\ UNCHANGED <<history_response, route_frame>>

\* POST /api/clear_history
ApiClearHistory ==
    /\ api_calls < MaxApiCalls
    /\ api_calls' = api_calls + 1
    /\ detections' = <<>>
    /\ builder' = "clear_history"
    /\ UNCHANGED <<verdict, history_response, route_frame>>

\* GET /api/history
ApiHistory ==
    /\ api_calls < MaxApiCalls
    /\ api_calls' = api_calls + 1
    /\ history_response' = [detections |-> LastN(detections, HistoryPage),
                            total |-> Len(detections)]
    /\ builder' = "get_history"
    /\ UNCHANGED <<verdict, detections, route_frame>>

ServerNext ==
    \/ ApiDetect
    \/ ApiTest
    \/ ApiClearHistory
    \/ ApiHistory

\* ---------------------------------------------------------------------
\* RealTimeDetector of src/deepfake_detector.py: the stream's callback
\* fills audio_queue, the loop of start_monitoring empties it.

RATE == 22050
CHUNK == 1024
RECORD_SECONDS == 3

\* frames_needed = int(self.RATE * self.RECORD_SECONDS / self.CHUNK)
frames_needed == (RATE * RECORD_SECONDS) \div CHUNK

\* RealTimeDetector.__init__
DetectorIdle ==
    /\ detector_monitoring = FALSE
    /\ audio_queue = 0
    /\ frames_put = 0
    /\ loop_pc = "init"
    /\ audio_frames = 0
    /\ frames_left = 0
    /\ chunks_predicted = 0
    /\ audio_data = 0

\* What the detector's steps leave alone.
detector_frame == <<monitor_vars, verdict_vars, remote_vars, startup_vars,
                    feature_vars, temp_vars>>

\* start_monitoring up to its loop: the stream is opened with the callback,
\* the flag set and the stream started.
DetectorStart ==
    /\ loop_pc = "init"
    /\ detector_monitoring' = TRUE
    /\ loop_pc' = "test"
    /\ UNCHANGED <<audio_queue, frames_put, audio_frames, frames_left,
                   chunks_predicted, audio_data, detector_frame>>

\* audio_callback, run by the stream's thread for each frame while the
\* stream is open.
audio_callback ==
    /\ loop_pc \in {"test", "collect", "finally"}
    /\ frames_put < MaxQueued
    /\ IF detector_monitoring
       THEN /\ audio_queue' = audio_queue + 1
            /\ frames_put' = frames_put + 1
       ELSE UNCHANGED <<audio_queue, frames_put>>
    /\ UNCHANGED <<detector_monitoring, loop_pc, audio_frames, frames_left,
                   chunks_predicted, audio_data, detector_frame>>

\* The head of the loop: when the queue is not empty a chunk is begun,
\* otherwise the loop sleeps and tests again.
LoopTest ==
    /\ loop_pc = "test"
    /\ detector_monitoring
    /\ chunks_predicted < MaxChunks
    /\ IF audio_queue > 0
       THEN /\ audio_frames' = 0
            /\ frames_left' = frames_needed
            /\ loop_pc' = "collect"
       ELSE UNCHANGED <<audio_frames, frames_left, loop_pc>>
    /\ UNCHANGED <<detector_monitoring, audio_queue, frames_put,
                   chunks_predicted, audio_data, detector_frame>>

\* One iteration of for _ in range(frames_needed): a frame is taken when
\* the queue holds one, and the iteration is spent either way.
CollectFrame ==
    /\ loop_pc = "collect"
    /\ frames_left > 0
    /\ IF audio_queue > 0
       THEN /\ audio_queue' = audio_queue - 1
            /\ audio_frames' = audio_frames + 1
       ELSE UNCHANGED <<audio_queue, audio_frames>>
    /\ frames_left' = frames_left - 1
    /\ UNCHANGED <<detector_monitoring, frames_put, loop_pc,
                   chunks_predicted, audio_data, detector_frame>>

\* After the for loop: the collected frames are joined and given to
\* predict_audio_chunk, and the loop sleeps and goes back to its test.
PredictChunk ==
    /\ loop_pc = "collect"
    /\ frames_left = 0
    /\ IF audio_frames > 0
       THEN /\ audio_data' = audio_frames
            /\ chunks_predicted' = chunks_predicted + 1
       ELSE UNCHANGED <<audio_data, chunks_predicted>>
    /\ loop_pc' = "test"
    /\ UNCHANGED <<detector_monitoring, audio_queue, frames_put, audio_frames,
                   frames_left, detector_frame>>

\* KeyboardInterrupt in the loop: the finally block clears the flag.
DetectorInterrupt ==
    /\ loop_pc \in {"test", "collect"}
    /\ detector_monitoring' = FALSE
    /\ loop_pc' = "finally"
    /\ UNCHANGED <<audio_queue, frames_put, audio_frames, frames_left,
                   chunks_predicted, audio_data, detector_frame>>

\* The rest of the finally block: the stream is stopped and closed.
StreamClose ==
    /\ loop_pc = "finally"
    /\ loop_pc' = "closed"
    /\ UNCHANGED <<detector_monitoring, audio_queue, frames_put, audio_frames,
                   frames_left, chunks_predicted, audio_data, detector_frame>>

DetectorNext ==
    \/ DetectorStart
    \/ audio_callback
    \/ LoopTest
    \/ CollectFrame
    \/ PredictChunk
    \/ DetectorInterrupt
    \/ StreamClose

Init == MonitorInit /\ VerdictInit /\ RemoteInit /\ StartupInit /\ FeatureIdle
     /\ DetectorIdle /\ NoTempFiles

FeatureInit == MonitorInit /\ VerdictInit /\ RemoteInit /\ StartupInit /\ FeatureInputs
            /\ DetectorIdle /\ NoTempFiles

SpecFeatures == FeatureInit /\ [][FeaturesNext]_vars

Spec == Init /\ [][MonitorNext]_vars

SpecEvents == Init /\ [][EventsNext]_vars

SpecVerdicts == Init /\ [][VerdictsNext]_vars

SpecRemote == Init /\ [][RemoteNext]_vars

HistoryInit == HistoryMonitorInit /\ VerdictInit /\ RemoteInit /\ StartupInit /\ FeatureIdle
            /\ DetectorIdle /\ NoTempFiles

SpecHistory == HistoryInit /\ [][HistoryNext]_vars

SpecLock == Init /\ [][LockNext]_vars

SpecDetector == Init /\ [][DetectorNext]_vars

SpecStartup == Init /\ [][StartupNext]_vars

ServerStart == MonitorInit /\ ServerInit /\ RemoteInit /\ StartupInit /\ FeatureIdle
            /\ DetectorIdle /\ NoTempFiles

SpecServer == ServerStart /\ [][ServerNext]_vars

\* The single-clip operations: predict_audio_file and detect_deepfake.
ClassifyNext ==
    \/ PredictAudioFile
    \/ RemoteNext

SpecClassify == Init /\ [][ClassifyNext]_vars

\* ------------------------------------------------------------------ claims
\* Steps of a behaviour.
VerdictStep == total_detections' = total_detections + 1
AlertFires == alerts_fired' = alerts_fired + 1
CooldownElapsed == now - last_alert_time >= alert_cooldown(variant)
StopActs == is_monitoring /\ ~is_monitoring'
EventStarts == ~in_detection_event /\ in_detection_event'
NoEvent ==
    /\ in_detection_event = FALSE
    /\ consecutive_detections = 0
    /\ detection_event_start = 0

\* C1: in a run of consecutive suspicious verdicts (no clean verdict and no
\* stop in between) the first verdict fires an alert when the cooldown has
\* elapsed, and no later verdict of the run fires one.
C1_OneAlertPerRun ==
    [][VerdictStep /\ run_len' >= 1 =>
          /\ (run_len = 0 /\ CooldownElapsed => AlertFires)
          /\ (run_len >= 1 => ~AlertFires)]_vars

\* C2 as stated: whoever emits an alert, the cooldown has elapsed since
\* last_alert_time.
C2_EveryAlertGated == [][AlertFires => CooldownElapsed]_vars

\* C2 amended: an alert emitted for a verdict is emitted only when the
\* cooldown has elapsed and sets last_alert_time, which nothing else changes,
\* so alerts for verdicts are at least alert_cooldown apart; test_alert emits
\* its alert unconditionally and leaves last_alert_time alone.
C2_VerdictAlertsGated ==
    [][/\ (AlertFires /\ VerdictStep
             => CooldownElapsed /\ last_alert_time' = now)
       /\ (AlertFires /\ ~VerdictStep => last_alert_time' = last_alert_time)
       /\ (last_alert_time' # last_alert_time => AlertFires /\ VerdictStep)]_vars

\* C2 witness: one verdict, whose alert started the cooldown, and a second
\* alert, from test_alert, inside the cooldown.
C2_Witness ==
    /\ total_detections = 1
    /\ alerts_fired = 2
    /\ last_alert_time = EpochStart
    /\ now > last_alert_time
    /\ now - last_alert_time < alert_cooldown(variant)

\* C3: in the desktop-app monitor, when a new event starts after an event
\* that fired its alert, the new event fires none if it starts less than
\* alert_cooldown after it (1 alert in total) and fires one if it starts at
\* least alert_cooldown after it (2 alerts).
C3_CooldownBetweenEvents ==
    [][variant = "desktop" /\ EventStarts /\ cur_event # <<>> =>
          /\ (now - cur_event[1] < alert_cooldown(variant)
                => ~(cur_event[2] /\ AlertFires))
          /\ (cur_event[2] /\ now - cur_event[1] >= alert_cooldown(variant)
                => AlertFires)]_vars

\* C3 witness: a suspicious, a clean and a suspicious verdict, the second
\* event alerting a cooldown after the first.
C3_Witness ==
    /\ variant = "desktop"
    /\ Len(detection_history) = 3
    /\ detection_history[1].is_suspicious
    /\ ~detection_history[2].is_suspicious
    /\ detection_history[3].is_suspicious
    /\ cur_event = <<EpochStart + alert_cooldown(variant), TRUE>>
    /\ last_alert_time = EpochStart + alert_cooldown(variant)

\* C4: stop_monitoring leaves is_monitoring false, NO_EVENT and
\* last_alert_time at its initial value.
C4_StopClearsCooldown ==
    [][StopActs => ~is_monitoring' /\ NoEvent' /\ last_alert_time' = 0]_vars

\* An analysis thread's call of process_streaming_chunk returns.
InferenceEnds(j) == analysis_pc[j] = "infer" /\ analysis_pc'[j] # "infer"

\* The RMS of the buffered audio is below MIN_VOLUME_THRESHOLD (squares of
\* both sides, in the units of IsTooQuiet).
BelowThreshold ==
    /\ streaming_buffer # <<>>
    /\ SumSquares(streaming_buffer) * 390625 <
          MinVolumeE4(variant) * MinVolumeE4(variant) * Len(streaming_buffer) * 4194304

\* C5: a result that arrives after stop_monitoring is discarded: no alert,
\* no history entry, event state and last_alert_time unchanged.
C5_LateResultDiscarded ==
    [][\A j \in Slots :
          ~is_monitoring /\ InferenceEnds(j) /\ ~tick_failed' =>
              /\ alerts_fired' = alerts_fired
              /\ detection_history' = detection_history
              /\ UNCHANGED event_vars
              /\ last_alert_time' = last_alert_time]_vars

\* C6: a tick whose inference ends in an error result changes neither the
\* event state nor last_alert_time, the history or total_detections, fires no
\* alert, and leaves both loops running.
C6_ErrorTickInconclusive ==
    [][\A j \in Slots :
          InferenceEnds(j) /\ tick_failed' =>
              /\ UNCHANGED event_vars
              /\ last_alert_time' = last_alert_time
              /\ detection_history' = detection_history
              /\ total_detections' = total_detections
              /\ alerts_fired' = alerts_fired
              /\ capture_pc' = capture_pc
              /\ (is_monitoring => analysis_pc'[j] = "sleep")]_vars

\* C6 witness: the desktop-app monitor inside an event, after a tick that
\* failed, its analysis thread asleep again.
C6_Witness ==
    /\ variant = "desktop"
    /\ is_monitoring
    /\ tick_failed
    /\ in_detection_event
    /\ consecutive_detections = 1
    /\ Len(detection_history) = 1
    /\ \E j \in Slots : analysis_pc[j] = "sleep"
    /\ \E i \in Slots : capture_pc[i] = "read"

\* C7: while the buffered audio is below MIN_VOLUME_THRESHOLD (all zeros
\* included) a tick of the analysis loop starts no inference: the thread
\* stays at its sleep, and unless the monitor is stopped or an earlier
\* inference is still in flight, the history, the event state and
\* last_alert_time stay as they are.
C7_SilenceGated ==
    [][\A j \in Slots :
          is_monitoring /\ BelowThreshold /\ analysis_pc[j] = "sleep" =>
              /\ analysis_pc'[j] = "sleep"
              /\ (is_monitoring' /\ \A k \in Slots : analysis_pc[k] # "infer")
                    => UNCHANGED <<history_vars, event_vars, last_alert_time>>]_vars

\* C7 witness: enough context in the buffer, audible but below the
\* threshold, and an analysis thread at its tick.
C7_Witness ==
    /\ is_monitoring
    /\ ~NotEnoughContext(variant, streaming_buffer, buffer_duration)
    /\ BelowThreshold
    /\ SumSquares(streaming_buffer) > 0
    /\ \E j \in Slots : analysis_pc[j] = "sleep"
    /\ \E i \in Slots : capture_pc[i] = "read"

\* C8: the buffered duration never exceeds BUFFER_DURATION.
C8_BufferWithinDuration == buffer_duration <= BUFFER_DURATION(variant)

\* C9: while the monitor is stopped the buffer is empty.
C9_EmptyWhileStopped ==
    ~is_monitoring => streaming_buffer = <<>> /\ buffer_duration = 0
\* C10: every verdict has prediction FAKE exactly when its fake probability
\* is above 0.5, whichever of the local classifier and the remote parsers
\* built it.
C10_VerdictConsistent ==
    ~verdict.error => (verdict.prediction = "FAKE" <=> verdict.fake > 5000)
\* C11: every verdict that carries probabilities has both in [0, 1], their
\* sum 1 (to the last digit a report prints) and confidence equal to the
\* larger of the two.
C11_ProbabilityInvariant ==
    builder # "none" /\ verdict.real # NoMatch =>
        /\ verdict.real \in 0..10000
        /\ verdict.fake \in 0..10000
        /\ verdict.real + verdict.fake \in 9990..10010
        /\ verdict.confidence = Max(verdict.real, verdict.fake)
\* C12: the is_suspicious flag parse_streaming_result sets equals
\* fake_prob > self.alert_threshold, whatever alert_threshold has been set to.
C12_FlagFollowsThreshold ==
    builder = "parse_streaming_result" /\ ~verdict.error =>
        (verdict.is_suspicious <=> verdict.fake > alert_threshold)
\* C13: for every terminal payload the parser returns a verdict, never an
\* error result and never an exception, with 0.5 for each probability it
\* could not parse.
C13_TolerantParsing ==
    builder \in {"parse_streaming_result", "parse_result"} =>
        /\ ~verdict.error
        /\ (payload.real = NoMatch => verdict.real = 5000)
        /\ (payload.fake = NoMatch => verdict.fake = 5000)
\* C14: every request of the remote call carries a timeout, polling makes at
\* most max_attempts requests, and a call whose polling budget is exhausted
\* returns an error result to its caller.
C14_BoundedRemoteCall ==
    /\ call_pc \in Requests => RequestTimeout(caller, call_pc) # NoTimeout
    /\ attempt <= max_attempts(caller)
    /\ call_end = "exhausted" => verdict.error /\ verdict # Raised
\* C15: predict_audio_file and detect_deepfake never let an exception out:
\* what they return is a verdict or a result with an 'error' entry.
C15_ClassifyNeverRaises ==
    builder \in {"predict_audio_file", "detect_deepfake"} =>
        /\ verdict # Raised
        /\ verdict.error \/ verdict.prediction \in {"FAKE", "REAL"}

\* C15 witness: detect_deepfake has returned its error result for a payload
\* on which parse_result raised.
C15_Witness ==
    /\ builder = "detect_deepfake"
    /\ call_pc = "returned"
    /\ call_end = "payload"
    /\ ~payload.text
    /\ verdict = ClientErrorResult
\* C16: detection_history never holds more than 100 entries; an inference
\* that ends in an error result leaves it alone; one that ends in a verdict,
\* suspicious or not, appends the verdict, and when that makes 101 entries
\* the oldest goes: the entries kept stay in their order.
C16_BoundedHistory ==
    [][/\ Len(detection_history') <= HistoryCap
       /\ \A j \in Slots : InferenceEnds(j) =>
            LET h == detection_history
                g == detection_history'
                shift == Len(h) + 1 - Len(g)
            IN  IF tick_failed'
                THEN g = h
                ELSE /\ Len(g) = IF Len(h) < HistoryCap THEN Len(h) + 1 ELSE HistoryCap
                     /\ \A i \in 1..(Len(g) - 1) : g[i] = h[i + shift]
                     /\ ~g[Len(g)].error
                     /\ total_detections' = total_detections + 1]_vars

\* C16 witness: the history is full, more verdicts have been handled than it
\* holds, the oldest is gone and the newest, a suspicious one, is its last.
C16_Witness ==
    /\ Len(detection_history) = HistoryCap
    /\ total_detections > HistoryCap
    /\ detection_history[HistoryCap].is_suspicious
    /\ detection_history[1] # detection_history[HistoryCap - 1]
\* C17: the analysis thread holds buffer_lock exactly while it tests and
\* copies the buffer: not while it sleeps, computes the volume of the copy, or
\* waits for the inference.
C17_LockOnlyForCopy ==
    \A j \in Slots :
        /\ buffer_lock = <<"analysis", j>> => analysis_pc[j] = "copy"
        /\ analysis_pc[j] \in {"sleep", "quiet", "loud", "infer", "none"}
              => buffer_lock # <<"analysis", j>>

\* C17 witness: a capture thread is inside its with block while an analysis
\* thread waits for the inference.
C17_Witness ==
    \E i, j \in Slots :
        /\ analysis_pc[j] = "infer"
        /\ buffer_lock = <<"capture", i>>

\* C18: an analysis thread that a stop_monitoring has told to end starts no
\* inference afterwards, and when the inference it was waiting for is over it
\* ends, whatever is called in between.
C18_StoppedThreadsEnd ==
    [][\A j \in stopped_threads :
          /\ analysis_pc[j] # "infer" => analysis_pc'[j] # "infer"
          /\ analysis_pc[j] = "infer" => analysis_pc'[j] \in {"infer", "none"}]_vars

\* C19: at most one capture thread and one analysis thread exist.
C19_OneThreadPerDuty ==
    /\ Cardinality(Alive(capture_pc)) <= 1
    /\ Cardinality(Alive(analysis_pc)) <= 1
\* C20: a service that has been launched where the weight file is absent has
\* failed to start, and no service runs without a usable model.
C20_MissingModelIsFatal ==
    /\ service_state # "down" /\ weight_file = "absent" => service_state = "failed"
    /\ service_state = "running" => model_loaded
\* C21: the matrix extract_mel_spectrogram returns has exactly 128 rows and
\* 128 columns: a spectrogram of n < 128 frames keeps its n columns in order
\* and gets 128 - n equal columns on the right; one of n >= 128 frames keeps
\* exactly its first 128 columns.
C21_ShapeInvariant ==
    builder \in FeatureCallers /\ ~features.none =>
        LET n == Len(audio_path.frames)
        IN  /\ features.rows = 128
            /\ Len(features.cols) = 128
            /\ \A i \in 1..128 : i <= n => features.cols[i] = audio_path.frames[i]
            /\ \A i, k \in 1..128 : i > n /\ k > n => features.cols[i] = features.cols[k]

\* C21 witness: a spectrogram of more than 128 frames was truncated, its
\* frame 129 differing from its frame 1.
C21_Witness ==
    /\ builder \in FeatureCallers /\ ~features.none
    /\ Len(audio_path.frames) > 128
    /\ audio_path.frames[129] # audio_path.frames[1]

\* C22: for a clip that fails to load or to process, extract_mel_spectrogram
\* gives None, the caller's outcome is its error outcome and the model has
\* not run.
C22_ExtractionFailureIsValue ==
    builder \in FeatureCallers /\ audio_path.kind # "speech" =>
        /\ features = None
        /\ verdict.error
        /\ model_calls = 0

\* C22 witness: predict_audio_chunk was given a zero-length clip.
C22_Witness ==
    /\ builder = "predict_audio_chunk"
    /\ audio_path.kind = "zero_length"
    /\ verdict.error

\* C23: the matrix create_reference_features builds for a clip is the matrix
\* extract_mel_spectrogram returns for it.
C23_ReferenceFeaturesAgree ==
    builder = "create_reference_features" => features = extract_mel_spectrogram(audio_path)
\* A step changes the buffer or its duration.
BufferChanges == <<streaming_buffer, buffer_duration>>' # <<streaming_buffer, buffer_duration>>

\* The step is made by capture thread i inside its with block.
CaptureWrites(i) ==
    /\ capture_pc[i] = "append" /\ buffer_lock = <<"capture", i>>
    /\ capture_pc'[i] # "append" /\ buffer_lock' = Unlocked

\* C24 as stated: only a capture thread changes streaming_buffer and
\* buffer_duration.
C24_OnlyCaptureWrites ==
    [][BufferChanges => \E i \in Slots : CaptureWrites(i)]_vars

\* C24 amended: streaming_buffer and buffer_duration are changed only by a
\* capture thread inside its with block, or emptied by stop_monitoring, which
\* takes the lock for it; a step of an analysis thread never changes them.
C24_WritersHoldLock ==
    [][/\ BufferChanges =>
            \/ \E i \in Slots : CaptureWrites(i)
            \/ /\ is_monitoring /\ ~is_monitoring'
               /\ buffer_lock = Unlocked /\ buffer_lock' = Unlocked
               /\ streaming_buffer' = <<>> /\ buffer_duration' = 0
       /\ analysis_pc' # analysis_pc => ~BufferChanges]_vars

\* C24 witness: an analysis thread has copied a buffer of two chunks that
\* capture threads wrote, and a capture thread is writing again.
C24_Witness ==
    \E i, j \in Slots :
        /\ Len(streaming_buffer) >= 2
        /\ analysis_pc[j] = "loud"
        /\ buffer_lock = <<"capture", i>>
\* C25: an analysis tick that finds the buffer empty or shorter than the
\* minimum context (4.0 s in the desktop-app monitor, 2.5 s in the other) is
\* skipped: the thread goes back to its sleep, starts no inference, and
\* nothing of the monitor's state changes.
C25_MinimumContextGate ==
    [][\A j \in Slots :
          /\ analysis_pc[j] = "copy" /\ analysis_pc'[j] # "copy"
          /\ \/ Len(streaming_buffer) = 0
             \/ buffer_duration * 10 < (IF variant = "desktop" THEN 40 ELSE 25)
          => /\ analysis_pc'[j] = "sleep"
             /\ UNCHANGED <<is_monitoring, buffer_vars, history_vars, event_vars,
                            alert_vars, run_vars, tick_vars, capture_pc>>]_vars

\* C25 witness: a tick of the desktop-app monitor has entered its with block
\* and finds one chunk, less than 4 s, in the buffer.
C25_Witness ==
    \E j \in Slots :
        /\ variant = "desktop" /\ is_monitoring
        /\ analysis_pc[j] = "copy"
        /\ Len(streaming_buffer) = 1 /\ buffer_duration * 10 < 40
\* C26: a /api/detect request that ends in an error result leaves the
\* detections list exactly as it was; one that ends in a result, whatever
\* came before, is served as usual: the result is the newest of the list, of
\* which the latest 1000 are kept.
C26_ErrorLeavesHistory ==
    [][/\ api_calls' # api_calls
       /\ builder' \in {"api_detect", "process_audio_chunk"}
       => IF verdict'.error
          THEN detections' = detections
          ELSE /\ Len(detections') = IF Len(detections) < 1000
                                     THEN Len(detections) + 1 ELSE 1000
               /\ detections'[Len(detections')] = verdict']_vars

\* C26 witness: the second request ended in an error result and the list
\* still holds what the first request left in it.
C26_Witness ==
    /\ builder = "process_audio_chunk" /\ verdict.error
    /\ api_calls = 2
    /\ Len(detections) = DetectionsStart + 1

\* C29: the detections list holds at most 1000 entries, and /api/history
\* returns the last 50 of the list it found with total equal to its length.
C29_ServerHistoryCap ==
    /\ Len(detections) <= 1000
    /\ builder = "get_history" =>
          /\ history_response.total = Len(detections)
          /\ history_response.detections = LastN(detections, 50)

\* The verdict handled by the step: the newest entry of the history.
HandledVerdict == detection_history'[Len(detection_history')]

\* C27: in the desktop-app monitor the event state changes only when a
\* verdict is handled or monitoring stops; a suspicious verdict in NO_EVENT
\* starts an event, a suspicious verdict in IN_EVENT continues it, a clean
\* verdict in IN_EVENT ends it without an alert, a clean verdict in NO_EVENT
\* changes only the history and the counter, and stop leaves NO_EVENT.
C27_EventLifecycle ==
    [][variant = "desktop" =>
          /\ (event_vars' # event_vars => VerdictStep \/ StopActs)
          /\ (StopActs => NoEvent')
          /\ (VerdictStep /\ HandledVerdict.is_suspicious =>
                 /\ in_detection_event'
                 /\ (~in_detection_event =>
                        /\ consecutive_detections' = 1
                        /\ detection_event_start' = now)
                 /\ (in_detection_event =>
                        /\ consecutive_detections' = consecutive_detections + 1
                        /\ detection_event_start' = detection_event_start))
          /\ (VerdictStep /\ ~HandledVerdict.is_suspicious =>
                 /\ NoEvent'
                 /\ ~AlertFires
                 /\ (~in_detection_event =>
                        UNCHANGED <<event_vars, alert_vars>>))]_vars

\* C27 witness: an event of two suspicious verdicts ended by a clean one.
C27_Witness ==
    /\ variant = "desktop"
    /\ is_monitoring
    /\ Len(detection_history) = 3
    /\ detection_history[1].is_suspicious
    /\ detection_history[2].is_suspicious
    /\ ~detection_history[3].is_suspicious
    /\ NoEvent
    /\ alerts_fired = 1

\* C28: in the desktop-app monitor the verdict that starts an event fires an
\* alert exactly when the cooldown has elapsed, no other verdict fires one,
\* and the alerts fired for the verdicts of one event are never more than one.
C28_OneAlertPerEvent ==
    [][variant = "desktop" /\ VerdictStep =>
          /\ (EventStarts => (AlertFires <=> CooldownElapsed))
          /\ (~EventStarts => ~AlertFires)
          /\ (in_detection_event' => run_alerts' <= 1)
          /\ (in_detection_event /\ in_detection_event' =>
                 run_alerts' = run_alerts)]_vars

\* C28 witness: an event that fired its alert on its first verdict and has
\* gone on for two more verdicts, the cooldown having elapsed again.
C28_Witness ==
    /\ variant = "desktop"
    /\ in_detection_event
    /\ consecutive_detections = 3
    /\ run_alerts = 1
    /\ alerts_fired = 1
    /\ now - last_alert_time >= alert_cooldown(variant)

\* C30: every chunk that start_monitoring of RealTimeDetector gives to
\* predict_audio_chunk is made of exactly frames_needed queued frames.
C30_ChunksAreThreeSeconds ==
    chunks_predicted > 0 => audio_data = frames_needed

\* A verdict is handled in the desktop-app monitor, while monitoring, that
\* continues an event begun more than alert_cooldown ago.
SustainedStretch ==
    /\ variant = "desktop"
    /\ VerdictStep
    /\ is_monitoring
    /\ in_detection_event
    /\ in_detection_event'
    /\ now - detection_event_start > alert_cooldown(variant)

UnparsedVerdict(result) ==
    \E p \in MonitorPayloads :
        /\ p.text
        /\ p.fake = NoMatch
        /\ result = parse_streaming_result(variant, p)

\* C32: a verdict parsed from a report without a parsable fake percentage is
\* not suspicious, starts no detection event and fires no alert.
C32_NoAlertFromUnparsed ==
    [][VerdictStep /\ UnparsedVerdict(HandledVerdict) =>
          /\ ~HandledVerdict.is_suspicious
          /\ ~EventStarts
          /\ ~AlertFires]_vars

\* C33: while is_monitoring is true a capture thread is alive; a capture
\* thread that ends on a device or read error does not leave the monitor in
\* the monitoring state without one.
C33_MonitoringImpliesCapturing == is_monitoring => Alive(capture_pc) # {}

\* C34: when process_audio_chunk or predict_audio_chunk has returned, and
\* when no call of send_to_streaming_api is in progress, the temporary audio
\* file of the operation is no longer on disk.
C34_TempFilesRemoved ==
    /\ builder \in {"process_audio_chunk", "predict_audio_chunk"}
          => builder \notin temp_files
    /\ call_pc \in {"idle", "returned"} => "send_to_streaming_api" \notin temp_files

\* C35: whenever nobody holds buffer_lock, buffer_duration is the sum of the
\* durations of the chunks in streaming_buffer (every chunk lasts
\* ChunkSeconds).
C35_BufferAccounting ==
    buffer_lock = Unlocked =>
        buffer_duration = Len(streaming_buffer) * ChunkSeconds

\* C35 witness: the lock is free, the buffer is as full as the eviction
\* lets it get, and an analysis thread is working on its snapshot.
C35_Witness ==
    /\ buffer_lock = Unlocked
    /\ is_monitoring
    /\ buffer_duration + ChunkSeconds > EvictionLimit(variant)
    /\ streaming_buffer # <<>>
    /\ \E j \in Slots : analysis_pc[j] = "infer"

\* C36: len(detection_history) is min(total_detections, 100) in every state,
\* and the two change only in a step that handles a verdict: test_alert,
\* start_monitoring and stop_monitoring leave both alone.
C36_HistoryAndCounterAgree ==
    [][/\ Len(detection_history) = Min(total_detections, HistoryCap)
       /\ Len(detection_history') = Min(total_detections', HistoryCap)
       /\ (<<detection_history, total_detections>>'
              # <<detection_history, total_detections>> => VerdictStep)]_vars

\* C36 witness: more verdicts handled than the history holds, with a stop, a
\* restart and a test alert on the way.
C36_Witness ==
    /\ total_detections = HistoryCap + 1
    /\ Len(detection_history) = HistoryCap
    /\ alerts_fired > 0
    /\ \A r \in {detection_history[i] : i \in 1..HistoryCap} : ~r.is_suspicious
    /\ stopped_threads # {}
    /\ is_monitoring

====
